---------------------------- MODULE Spec2Model ----------------------------
(***************************************************************************)
(* Walk-in queue engine of the hospital system: QueueService               *)
(* (src/src/services/queue_service.py) over the queue_entries table,       *)
(* reached through MySQLDatabaseManager (src/src/database/                  *)
(* mysql_db_manager.py), where every execute_query / execute_update opens  *)
(* its own connection and commits on its own.                              *)
(***************************************************************************)
EXTENDS Integers, Sequences, FiniteSets, TLC

(* ------------------------------ bounds --------------------------------- *)
\* calls made to the service in one behaviour
MaxCalls == 4
\* calls begun in one behaviour of the statement-by-statement specifications
MaxClientCalls == 2
\* largest value of the wall clock (datetime.now()) in the model
MaxTime == 2

(* ----------------------------- constants ------------------------------- *)
\* SQL NULL / Python None for timestamps and positions
NULL == 0
\* QueueService.AVERAGE_SERVICE_TIME
AVERAGE_SERVICE_TIME == 15
\* status value written by serve_patient
SERVED == 3
\* "no reason given" (reason=None)
NoReason == "NULL"

Patients == {1, 2}
\* rows of the specializations table
Specializations == {1, 2}
\* specialization ids a caller may pass (3 has no row in specializations)
SpecInputs == Specializations \cup {3}
\* status arguments a caller may pass (3 is outside [0, 1, 2])
StatusInputs == 0..3
Reasons == {NoReason, "no longer waiting"}
\* queue_entry_id arguments (ids past the last row match no row)
EntryIds == 1..MaxCalls

\* specializations.max_capacity, held fixed
max_capacity(s) == IF s = 1 THEN 3 ELSE 1

VARIABLES
    entries,        \* the queue_entries table: row i has queue_entry_id i
    now,            \* the last value datetime.now() returned
    lastInsertId,   \* MySQLDatabaseManager._last_insert_id (-1 is None)
    last,           \* the call that completed last and what it returned
    calls,          \* calls made so far
    proc,           \* per client: the call in progress, its place and locals
    inactive        \* the specializations whose row has is_active = 0

vars == <<entries, now, lastInsertId, last, calls, proc, inactive>>

(* --------------------------- the table --------------------------------- *)
\* WHERE removed_at IS NULL AND served_at IS NULL
IsActiveRow(e) == e.removed_at = NULL /\ e.served_at = NULL

\* QueueEntry.is_active
is_active(e) == e.status # SERVED /\ e.removed_at = NULL

\* ORDER BY status DESC, joined_at ASC: a strictly before b
SortsBefore(a, b) ==
    \/ a.status > b.status
    \/ a.status = b.status /\ a.joined_at < b.joined_at

\* the SELECT of get_queue without its served_at / removed_at condition
QueueRowsUnfiltered(db, s, active_only) ==
    {i \in 1..Len(db) : db[i].specialization_id = s}

\* the SELECT of get_queue without its specialization_id condition
QueueRowsAllSpecializations(db, s, active_only) ==
    {i \in 1..Len(db) : active_only => IsActiveRow(db[i])}

\* rows a get_queue SELECT matches
QueueRows(db, s, active_only) ==
    {i \in 1..Len(db) : /\ db[i].specialization_id = s
                        /\ (active_only => IsActiveRow(db[i]))}

\* every order in which the database may return the rows S under the
\* ORDER BY (rows equal in status and joined_at come in any order)
RECURSIVE Orders(_, _)
Orders(db, S) ==
    IF S = {} THEN {<<>>}
    ELSE UNION { {<<h>> \o t : t \in Orders(db, S \ {h})} :
                 h \in {x \in S : \A y \in S : ~SortsBefore(db[y], db[x])} }

\* the result sets of the SELECT of get_queue, as sequences of row ids
SelectQueue(db, s, active_only) == Orders(db, QueueRows(db, s, active_only))

\* _update_position recomputing the wait estimate from the new position
UpdatePositionRefresh(db, id, position) ==
    [db EXCEPT ![id].position = position,
               ![id].estimated_wait_time = (position - 1) * AVERAGE_SERVICE_TIME]

\* _update_position
UpdatePosition(db, id, position) == [db EXCEPT ![id].position = position]

\* the loop of get_queue (and of _reorder_queue_positions) over a result q
RECURSIVE ApplyPositions(_, _, _)
ApplyPositions(db, q, idx) ==
    IF idx > Len(q) THEN db
    ELSE ApplyPositions(
            IF db[q[idx]].position # idx THEN UpdatePosition(db, q[idx], idx) ELSE db,
            q, idx + 1)

\* some UPDATE ran in that loop
Touched(db, q) == \E k \in 1..Len(q) : db[q[k]].position # k

\* execute_update stores cursor.lastrowid, which is 0 after an UPDATE
LidAfterLoop(db, lid, q) == IF Touched(db, q) THEN 0 ELSE lid

\* get_queue: the outcomes of one call, each with the table it leaves
GetQueueOutcomes(db, lid, s, active_only) ==
    { [db |-> ApplyPositions(db, q, 1), lid |-> LidAfterLoop(db, lid, q), q |-> q] :
        q \in SelectQueue(db, s, active_only) }

\* _reorder_queue_positions
ReorderQueuePositions(db, lid, s) == GetQueueOutcomes(db, lid, s, TRUE)

\* get_queue_entry: the row exists
EntryExists(db, id) == id \in 1..Len(db)

\* get_active_queue_entry: ORDER BY joined_at DESC LIMIT 1
ActiveQueueEntries(db, p, s) ==
    LET A == {i \in 1..Len(db) : /\ db[i].patient_id = p
                                 /\ db[i].specialization_id = s
                                 /\ IsActiveRow(db[i])}
    IN {i \in A : \A j \in A : db[j].joined_at <= db[i].joined_at}

\* the estimate with the multipliers of Normal and SuperUrgent exchanged
EstimateOfSwapped(ahead, status) ==
    IF status = 2 THEN ahead * AVERAGE_SERVICE_TIME
    ELSE IF status = 1
         THEN IF ahead = 6 THEN 62 ELSE (ahead * AVERAGE_SERVICE_TIME * 7) \div 10
         ELSE (ahead * AVERAGE_SERVICE_TIME) \div 2

\* int(patients_ahead * 15 * multiplier), in binary floating point
\* (90 * 0.7 is 62.99999999999999)
EstimateOf(ahead, status) ==
    IF status = 0 THEN ahead * AVERAGE_SERVICE_TIME
    ELSE IF status = 1
         THEN IF ahead = 6 THEN 62 ELSE (ahead * AVERAGE_SERVICE_TIME * 7) \div 10
         ELSE (ahead * AVERAGE_SERVICE_TIME) \div 2

\* the QueueEntry objects get_queue builds from the rows q it read
Snapshot(db, q) ==
    [k \in 1..Len(q) |->
        [id |-> q[k], status |-> db[q[k]].status, position |-> db[q[k]].position]]

\* the list get_queue returns: entry.position = idx throughout
Returned(queue) == [k \in 1..Len(queue) |-> [queue[k] EXCEPT !.position = k]]

\* _calculate_estimated_wait_time on the list get_queue returned to it
CalculateEstimatedWaitTime(queue, status, position) ==
    LET patients_ahead == Cardinality({k \in 1..Len(queue) :
                    \/ queue[k].status > status
                    \/ queue[k].status = status /\ queue[k].position < position})
        estimated == EstimateOf(patients_ahead, status)
    IN IF estimated > 0 THEN estimated ELSE 0

\* datetime.now(): the clock does not run backwards, and two reads may agree
ClockReads == {t \in {now, now + 1} : t >= 1 /\ t <= MaxTime}

NewRow(p, s, status, position, est, t) ==
    [patient_id |-> p, specialization_id |-> s, status |-> status,
     position |-> position, joined_at |-> t, served_at |-> NULL,
     removed_at |-> NULL, removal_reason |-> NoReason,
     estimated_wait_time |-> est]

Result(op, res, val) == [op |-> op, res |-> res, val |-> val]

\* the clients of the service
Procs == {1, 2}

\* a client with no call in progress
Idle == [pc |-> "idle", op |-> "none", cont |-> "none", p |-> 0, s |-> 0,
         status |-> 0, id |-> 0, reason |-> NoReason, active_only |-> TRUE,
         queue |-> <<>>, position |-> 0, res |-> "none", val |-> <<>>,
         before |-> <<>>]

(* ------------------------------ Init ----------------------------------- *)
Init ==
    /\ entries = <<>>
    /\ now = 0
    /\ lastInsertId = -1
    /\ last = Result("none", "none", <<>>)
    /\ calls = 0
    /\ proc = [self \in Procs |-> Idle]
    /\ inactive = {}


(* --------------------- operations, one call at a time ------------------ *)
\* the status check of add_patient_to_queue and update_patient_priority
ValidStatus(status) == status \in {0, 1, 2}

\* the duplicate check with patient_id and specialization_id passed in
\* the wrong order
AlreadyQueuedSwapped(db, p, s) == ActiveQueueEntries(db, s, p) # {}

\* the capacity check one off: a full queue still admits
AtCapacityOffByOne(n, s) == n > max_capacity(s)

\* the duplicate check of add_patient_to_queue
AlreadyQueued(db, p, s) == ActiveQueueEntries(db, p, s) # {}

\* the capacity check of add_patient_to_queue
AtCapacity(n, s) == n >= max_capacity(s)

\* add_patient_to_queue(patient_id, specialization_id, status)
AddPatientToQueue(p, s, status) ==
    IF ~ValidStatus(status)
    THEN /\ last' = Result("join", "invalid_status", <<>>)
         /\ UNCHANGED <<entries, now, lastInsertId>>
    ELSE IF AlreadyQueued(entries, p, s)
    THEN /\ \E e \in ActiveQueueEntries(entries, p, s) :
                last' = Result("join", "duplicate", <<entries[e].position>>)
         /\ UNCHANGED <<entries, now, lastInsertId>>
    ELSE \E g1 \in GetQueueOutcomes(entries, lastInsertId, s, TRUE) :
        IF s \notin Specializations
        THEN /\ entries' = g1.db
             /\ lastInsertId' = g1.lid
             /\ last' = Result("join", "not_found", <<>>)
             /\ UNCHANGED now
        ELSE IF AtCapacity(Len(g1.q), s)
        THEN /\ entries' = g1.db
             /\ lastInsertId' = g1.lid
             /\ last' = Result("join", "capacity", <<max_capacity(s)>>)
             /\ UNCHANGED now
        ELSE \E g2 \in GetQueueOutcomes(g1.db, g1.lid, s, TRUE) :
                \E t \in ClockReads :
                  LET position == Len(g1.q) + 1
                      est == CalculateEstimatedWaitTime(Returned(Snapshot(g2.db, g2.q)),
                                                       status, position)
                      db3 == Append(g2.db, NewRow(p, s, status, position, est, t))
                      queue_entry_id == Len(db3)
                  IN \E g3 \in ReorderQueuePositions(db3, queue_entry_id, s) :
                        /\ entries' = g3.db
                        /\ lastInsertId' = g3.lid
                        /\ now' = t
                        /\ last' = Result("join", "ok", <<queue_entry_id>>)

\* the UPDATE of serve_patient
MarkServed(db, id, t) == [db EXCEPT ![id].served_at = t, ![id].status = SERVED]

\* the UPDATE of remove_patient_from_queue
MarkRemoved(db, id, t, reason) ==
    [db EXCEPT ![id].removed_at = t, ![id].removal_reason = reason]

\* the UPDATE of update_patient_priority
SetStatus(db, id, status) == [db EXCEPT ![id].status = status]

\* serve_patient applied to a table, with the value it returns
ServePatientOutcomes(db, lid, id) ==
    IF ~EntryExists(db, id)
    THEN {[db |-> db, lid |-> lid, t |-> now, res |-> "false"]}
    ELSE UNION { { [db |-> g.db, lid |-> g.lid, t |-> t, res |-> "true"] :
                     g \in ReorderQueuePositions(MarkServed(db, id, t), 0,
                                                 db[id].specialization_id) } :
                 t \in ClockReads }

\* serve_patient(queue_entry_id)
ServePatient(id) ==
    \E o \in ServePatientOutcomes(entries, lastInsertId, id) :
        /\ entries' = o.db
        /\ lastInsertId' = o.lid
        /\ now' = o.t
        /\ last' = Result("serve", o.res, <<>>)

\* get_next_patient taking the last entry of the sorted queue, not queue[0]
GetNextPatientTail(s) ==
    \E g \in GetQueueOutcomes(entries, lastInsertId, s, TRUE) :
        IF g.q = <<>>
        THEN /\ entries' = g.db
             /\ lastInsertId' = g.lid
             /\ last' = Result("next", "none", <<>>)
             /\ UNCHANGED now
        ELSE \E o \in ServePatientOutcomes(g.db, g.lid, g.q[Len(g.q)]) :
                /\ entries' = o.db
                /\ lastInsertId' = o.lid
                /\ now' = o.t
                /\ last' = Result("next", "entry", <<g.q[Len(g.q)]>>)

\* get_next_patient(specialization_id)
GetNextPatient(s) ==
    \E g \in GetQueueOutcomes(entries, lastInsertId, s, TRUE) :
        IF g.q = <<>>
        THEN /\ entries' = g.db
             /\ lastInsertId' = g.lid
             /\ last' = Result("next", "none", <<>>)
             /\ UNCHANGED now
        ELSE \E o \in ServePatientOutcomes(g.db, g.lid, g.q[1]) :
                /\ entries' = o.db
                /\ lastInsertId' = o.lid
                /\ now' = o.t
                /\ last' = Result("next", "entry", <<g.q[1]>>)

\* remove_patient_from_queue(queue_entry_id, reason)
RemovePatientFromQueue(id, reason) ==
    IF ~EntryExists(entries, id)
    THEN /\ last' = Result("remove", "false", <<>>)
         /\ UNCHANGED <<entries, now, lastInsertId>>
    ELSE \E t \in ClockReads :
         \E g \in ReorderQueuePositions(MarkRemoved(entries, id, t, reason), 0,
                                        entries[id].specialization_id) :
            /\ entries' = g.db
            /\ lastInsertId' = g.lid
            /\ now' = t
            /\ last' = Result("remove", "true", <<>>)

\* update_patient_priority(queue_entry_id, new_status)
UpdatePatientPriority(id, new_status) ==
    IF ~ValidStatus(new_status)
    THEN /\ last' = Result("priority", "invalid_status", <<>>)
         /\ UNCHANGED <<entries, now, lastInsertId>>
    ELSE IF ~EntryExists(entries, id)
    THEN /\ last' = Result("priority", "false", <<>>)
         /\ UNCHANGED <<entries, now, lastInsertId>>
    ELSE \E g \in ReorderQueuePositions(SetStatus(entries, id, new_status), 0,
                                        entries[id].specialization_id) :
            /\ entries' = g.db
            /\ lastInsertId' = g.lid
            /\ last' = Result("priority", "true", <<>>)
            /\ UNCHANGED now

\* get_queue(specialization_id, active_only)
GetQueue(s, active_only) ==
    \E g \in GetQueueOutcomes(entries, lastInsertId, s, active_only) :
        /\ entries' = g.db
        /\ lastInsertId' = g.lid
        /\ last' = Result(IF active_only THEN "queue" ELSE "queue_all", "list", g.q)
        /\ UNCHANGED now

\* one more call, while the model's budget of calls lasts
Call == calls < MaxCalls /\ calls' = calls + 1

\* a whole call runs with no other call in progress
Alone == Call /\ UNCHANGED <<proc, inactive>>

Join == \E p \in Patients, s \in SpecInputs, status \in StatusInputs :
            Alone /\ AddPatientToQueue(p, s, status)
Serve == \E id \in EntryIds : Alone /\ ServePatient(id)
ServeNext == \E s \in SpecInputs : Alone /\ GetNextPatient(s)
Remove == \E id \in EntryIds, reason \in Reasons :
            Alone /\ RemovePatientFromQueue(id, reason)
Reprioritize == \E id \in EntryIds, status \in StatusInputs :
                    Alone /\ UpdatePatientPriority(id, status)
ReadQueue == \E s \in SpecInputs, active_only \in BOOLEAN :
                Alone /\ GetQueue(s, active_only)

Next ==
    \/ Join
    \/ Serve
    \/ ServeNext
    \/ Remove
    \/ Reprioritize
    \/ ReadQueue

Spec == Init /\ [][Next]_vars

(* ------------------ well-formed calls, three patients ------------------ *)
\* Existing specializations, priorities 0..2 and ids of stored entries only,
\* so that a queue holds up to three active entries.
ValidPatients == {1, 2, 3}
Priorities == {0, 1, 2}

ValidJoin == \E p \in ValidPatients, s \in Specializations, status \in Priorities :
                Alone /\ AddPatientToQueue(p, s, status)
ValidServe == \E id \in 1..Len(entries) : Alone /\ ServePatient(id)
ValidServeNext == \E s \in Specializations : Alone /\ GetNextPatient(s)
ValidRemove == \E id \in 1..Len(entries), reason \in Reasons :
                Alone /\ RemovePatientFromQueue(id, reason)
ValidReprioritize == \E id \in 1..Len(entries), status \in Priorities :
                        Alone /\ UpdatePatientPriority(id, status)
ValidReadQueue == \E s \in Specializations, active_only \in BOOLEAN :
                    Alone /\ GetQueue(s, active_only)

NextValid ==
    \/ ValidJoin
    \/ ValidServe
    \/ ValidServeNext
    \/ ValidRemove
    \/ ValidReprioritize
    \/ ValidReadQueue

SpecValid == Init /\ [][NextValid]_vars

(* ------------- longer runs of calls on one specialization -------------- *)
\* calls made in one behaviour of this specification
MaxDeskCalls == 5

\* the specialization the calls go to: the one with room for one entry
Desk == CHOOSE s \in Specializations : max_capacity(s) = 1

\* SpecializationService.delete_specialization(specialization_id): the soft
\* delete, UPDATE specializations SET is_active = 0
DeleteSpecialization(s) ==
    /\ inactive' = inactive \cup {s}
    /\ last' = Result("delete_specialization", "true", <<>>)
    /\ UNCHANGED <<entries, now, lastInsertId>>

DeskCall == calls < MaxDeskCalls /\ calls' = calls + 1 /\ UNCHANGED proc

QueueCall == DeskCall /\ UNCHANGED inactive

DeskJoin == \E p \in Patients, status \in Priorities :
                QueueCall /\ AddPatientToQueue(p, Desk, status)
DeskServe == \E id \in 1..Len(entries) : QueueCall /\ ServePatient(id)
DeskServeNext == QueueCall /\ GetNextPatient(Desk)
DeskRemove == \E id \in 1..Len(entries), reason \in Reasons :
                QueueCall /\ RemovePatientFromQueue(id, reason)
DeskReprioritize == \E id \in 1..Len(entries), status \in Priorities :
                        QueueCall /\ UpdatePatientPriority(id, status)
DeskReadQueue == \E active_only \in BOOLEAN : QueueCall /\ GetQueue(Desk, active_only)
Deactivate == DeskCall /\ DeleteSpecialization(Desk)

NextDesk ==
    \/ DeskJoin
    \/ DeskServe
    \/ DeskServeNext
    \/ DeskRemove
    \/ DeskReprioritize
    \/ DeskReadQueue
    \/ Deactivate

SpecDesk == Init /\ [][NextDesk]_vars

(* ------------- the same calls, one SQL statement at a time ------------- *)
\* Every execute_query / execute_update is a transaction of its own, so the
\* calls of two clients interleave between statements.

\* first index whose entry.position differs from idx (0: none)
FirstMismatch(queue) ==
    IF \E k \in 1..Len(queue) : queue[k].position # k
    THEN CHOOSE k \in 1..Len(queue) :
            /\ queue[k].position # k
            /\ \A j \in 1..(k - 1) : queue[j].position = j
    ELSE 0

\* one more call of a client, while the budget of such calls lasts
ClientCall == calls < MaxClientCalls /\ calls' = calls + 1 /\ UNCHANGED inactive

\* where a client goes once get_queue has read (or patched a position)
AfterPositions(queue, cont) == IF FirstMismatch(queue) # 0 THEN "positions" ELSE cont

Enter(self, loc) == proc' = [proc EXCEPT ![self] = loc]

\* the call of client self ends and returns
Finish(self, op, res, val) ==
    /\ last' = Result(op, res, val)
    /\ proc' = [proc EXCEPT ![self] = Idle]

\* the table as it was when the call began (kept where a failed call is
\* compared with it)
Before(track) == IF track THEN entries ELSE <<>>

\* get_queue: the SELECT
GetQueueSelect(self) ==
    LET l == proc[self] IN
    /\ l.pc = "get_queue"
    /\ \E q \in SelectQueue(entries, l.s, l.active_only) :
        LET queue == Snapshot(entries, q) IN
        Enter(self, [l EXCEPT !.queue = queue, !.pc = AfterPositions(queue, l.cont)])
    /\ UNCHANGED <<entries, now, lastInsertId, last, calls, inactive>>

\* get_queue / _reorder_queue_positions: one _update_position of the loop
UpdatePositionStep(self) ==
    LET l == proc[self]
        idx == FirstMismatch(l.queue)
        queue == [l.queue EXCEPT ![idx].position = idx]
    IN /\ l.pc = "positions"
       /\ entries' = UpdatePosition(entries, l.queue[idx].id, idx)
       /\ lastInsertId' = 0
       /\ Enter(self, [l EXCEPT !.queue = queue, !.pc = AfterPositions(queue, l.cont)])
       /\ UNCHANGED <<now, last, calls, inactive>>

\* add_patient_to_queue: status check, get_active_queue_entry
StartJoin(self, p, s, status, track) ==
    /\ proc[self].pc = "idle"
    /\ ClientCall
    /\ IF ~ValidStatus(status)
       THEN Finish(self, "join", "invalid_status", <<>>)
       ELSE IF AlreadyQueued(entries, p, s)
       THEN \E e \in ActiveQueueEntries(entries, p, s) :
                Finish(self, "join", "duplicate", <<entries[e].position>>)
       ELSE /\ Enter(self, [Idle EXCEPT !.pc = "get_queue", !.op = "join",
                              !.cont = "join_capacity", !.p = p, !.s = s,
                              !.status = status, !.before = Before(track)])
            /\ UNCHANGED last
    /\ UNCHANGED <<entries, now, lastInsertId>>

\* add_patient_to_queue: SELECT max_capacity and the capacity check
JoinCapacity(self) ==
    LET l == proc[self] IN
    /\ l.pc = "join_capacity"
    /\ IF l.s \notin Specializations
       THEN Finish(self, "join", "not_found", <<>>)
       ELSE IF AtCapacity(Len(l.queue), l.s)
       THEN Finish(self, "join", "capacity", <<max_capacity(l.s)>>)
       ELSE /\ Enter(self, [l EXCEPT !.position = Len(l.queue) + 1,
                              !.pc = "get_queue", !.cont = "join_insert"])
            /\ UNCHANGED last
    /\ UNCHANGED <<entries, now, lastInsertId, calls, inactive>>

\* add_patient_to_queue: the estimate and the INSERT (id: the row it adds)
JoinInsert(self) ==
    LET l == proc[self] IN
    /\ l.pc = "join_insert"
    /\ \E t \in ClockReads :
        LET est == CalculateEstimatedWaitTime(l.queue, l.status, l.position)
            db == Append(entries, NewRow(l.p, l.s, l.status, l.position, est, t))
        IN /\ entries' = db
           /\ lastInsertId' = Len(db)
           /\ now' = t
    /\ Enter(self, [l EXCEPT !.pc = "join_lastid", !.id = Len(entries) + 1])
    /\ UNCHANGED <<last, calls, inactive>>

\* add_patient_to_queue: get_last_insert_id, then _reorder_queue_positions
JoinLastId(self) ==
    LET l == proc[self] IN
    /\ l.pc = "join_lastid"
    /\ Enter(self, [l EXCEPT !.pc = "get_queue", !.cont = "return", !.res = "ok",
                      !.val = <<IF lastInsertId = -1 THEN 0 ELSE lastInsertId>>])
    /\ UNCHANGED <<entries, now, lastInsertId, last, calls, inactive>>

\* serve_patient: get_queue_entry
StartServe(self, id, track) ==
    /\ proc[self].pc = "idle"
    /\ ClientCall
    /\ IF ~EntryExists(entries, id)
       THEN Finish(self, "serve", "false", <<>>)
       ELSE /\ Enter(self, [Idle EXCEPT !.pc = "serve_update", !.op = "serve",
                              !.id = id, !.s = entries[id].specialization_id,
                              !.res = "true", !.before = Before(track)])
            /\ UNCHANGED last
    /\ UNCHANGED <<entries, now, lastInsertId>>

\* serve_patient: the UPDATE, then _reorder_queue_positions
ServeUpdate(self) ==
    LET l == proc[self] IN
    /\ l.pc = "serve_update"
    /\ \E t \in ClockReads :
        /\ entries' = MarkServed(entries, l.id, t)
        /\ now' = t
    /\ lastInsertId' = 0
    /\ Enter(self, [l EXCEPT !.pc = "get_queue", !.cont = "return"])
    /\ UNCHANGED <<last, calls, inactive>>

\* get_next_patient: get_queue
StartNext(self, s, track) ==
    /\ proc[self].pc = "idle"
    /\ ClientCall
    /\ Enter(self, [Idle EXCEPT !.pc = "get_queue", !.op = "next",
                      !.cont = "next_pick", !.s = s, !.before = Before(track)])
    /\ UNCHANGED <<entries, now, lastInsertId, last>>

\* get_next_patient: queue[0], and the get_queue_entry of serve_patient
NextPick(self) ==
    LET l == proc[self] IN
    /\ l.pc = "next_pick"
    /\ IF l.queue = <<>>
       THEN Finish(self, "next", "none", <<>>)
       ELSE /\ Enter(self, [l EXCEPT !.pc = "serve_update", !.id = l.queue[1].id,
                              !.s = entries[l.queue[1].id].specialization_id,
                              !.res = "entry", !.val = <<l.queue[1].id>>])
            /\ UNCHANGED last
    /\ UNCHANGED <<entries, now, lastInsertId, calls, inactive>>

\* remove_patient_from_queue: get_queue_entry
StartRemove(self, id, reason, track) ==
    /\ proc[self].pc = "idle"
    /\ ClientCall
    /\ IF ~EntryExists(entries, id)
       THEN Finish(self, "remove", "false", <<>>)
       ELSE /\ Enter(self, [Idle EXCEPT !.pc = "remove_update", !.op = "remove",
                              !.id = id, !.reason = reason,
                              !.s = entries[id].specialization_id,
                              !.res = "true", !.before = Before(track)])
            /\ UNCHANGED last
    /\ UNCHANGED <<entries, now, lastInsertId>>

\* remove_patient_from_queue: the UPDATE, then _reorder_queue_positions
RemoveUpdate(self) ==
    LET l == proc[self] IN
    /\ l.pc = "remove_update"
    /\ \E t \in ClockReads :
        /\ entries' = MarkRemoved(entries, l.id, t, l.reason)
        /\ now' = t
    /\ lastInsertId' = 0
    /\ Enter(self, [l EXCEPT !.pc = "get_queue", !.cont = "return"])
    /\ UNCHANGED <<last, calls, inactive>>

\* update_patient_priority: status check, get_queue_entry
StartPriority(self, id, new_status, track) ==
    /\ proc[self].pc = "idle"
    /\ ClientCall
    /\ IF ~ValidStatus(new_status)
       THEN Finish(self, "priority", "invalid_status", <<>>)
       ELSE IF ~EntryExists(entries, id)
       THEN Finish(self, "priority", "false", <<>>)
       ELSE /\ Enter(self, [Idle EXCEPT !.pc = "priority_update", !.op = "priority",
                              !.id = id, !.status = new_status,
                              !.s = entries[id].specialization_id,
                              !.res = "true", !.before = Before(track)])
            /\ UNCHANGED last
    /\ UNCHANGED <<entries, now, lastInsertId>>

\* update_patient_priority: the UPDATE, then _reorder_queue_positions
PriorityUpdate(self) ==
    LET l == proc[self] IN
    /\ l.pc = "priority_update"
    /\ entries' = SetStatus(entries, l.id, l.status)
    /\ lastInsertId' = 0
    /\ Enter(self, [l EXCEPT !.pc = "get_queue", !.cont = "return"])
    /\ UNCHANGED <<now, last, calls, inactive>>

\* get_queue called by a client
StartGetQueue(self, s, active_only) ==
    /\ proc[self].pc = "idle"
    /\ ClientCall
    /\ Enter(self, [Idle EXCEPT !.pc = "get_queue", !.cont = "return", !.s = s,
                      !.op = IF active_only THEN "queue" ELSE "queue_all",
                      !.active_only = active_only, !.res = "list"])
    /\ UNCHANGED <<entries, now, lastInsertId, last>>

\* the return statement of a call
Return(self) ==
    LET l == proc[self] IN
    /\ l.pc = "return"
    /\ Finish(self, l.op, l.res,
              IF l.res = "list" THEN [k \in 1..Len(l.queue) |-> l.queue[k].id]
              ELSE l.val)
    /\ UNCHANGED <<entries, now, lastInsertId, calls, inactive>>

\* get_all_queues(active_only=True): one SELECT, nothing written
GetAllQueues(self) ==
    /\ proc[self].pc = "idle"
    /\ UNCHANGED <<calls, inactive>>
    /\ \E q1 \in SelectQueue(entries, 1, TRUE), q2 \in SelectQueue(entries, 2, TRUE) :
            Finish(self, "all_queues", "list", q1 \o q2)
    /\ UNCHANGED <<entries, now, lastInsertId>>

\* get_queue_entry(queue_entry_id): one SELECT, nothing written
GetQueueEntry(self, id) ==
    /\ proc[self].pc = "idle"
    /\ UNCHANGED <<calls, inactive>>
    /\ IF EntryExists(entries, id)
       THEN Finish(self, "entry", "found", <<id, entries[id].position>>)
       ELSE Finish(self, "entry", "none", <<>>)
    /\ UNCHANGED <<entries, now, lastInsertId>>

\* the statement a client is about to run raises (a storage failure): the
\* exception leaves the call at once; what was committed stays committed
Fail(self) ==
    LET l == proc[self] IN
    /\ l.pc \notin {"idle", "return", "join_lastid", "next_pick"}
    /\ Finish(self, l.op, "error", <<>>)
    /\ UNCHANGED <<entries, now, lastInsertId, calls, inactive>>

\* a client begins a call
Begin(self, track) ==
    \/ \E p \in Patients, s \in SpecInputs, status \in StatusInputs :
            StartJoin(self, p, s, status, track)
    \/ \E id \in EntryIds : StartServe(self, id, track)
    \/ \E s \in SpecInputs : StartNext(self, s, track)
    \/ \E id \in EntryIds, reason \in Reasons : StartRemove(self, id, reason, track)
    \/ \E id \in EntryIds, status \in StatusInputs : StartPriority(self, id, status, track)
    \/ \E s \in SpecInputs, active_only \in BOOLEAN : StartGetQueue(self, s, active_only)

\* a client runs the next statement of its call
Step(self) ==
    \/ GetQueueSelect(self)
    \/ UpdatePositionStep(self)
    \/ JoinCapacity(self)
    \/ JoinInsert(self)
    \/ JoinLastId(self)
    \/ ServeUpdate(self)
    \/ NextPick(self)
    \/ RemoveUpdate(self)
    \/ PriorityUpdate(self)
    \/ Return(self)

\* a client reads
Read(self) ==
    \/ GetAllQueues(self)
    \/ \E id \in EntryIds : GetQueueEntry(self, id)

\* two clients, no isolation between their statements
NextConc == \E self \in Procs : Begin(self, FALSE) \/ Step(self) \/ Read(self)

SpecConc == Init /\ [][NextConc]_vars

\* client 1 makes calls while client 2 only reads
NextRead == Begin(1, FALSE) \/ Step(1) \/ Read(2)

SpecRead == Init /\ [][NextRead]_vars

\* one client, any statement of whose calls may fail
NextFail == Begin(1, TRUE) \/ Step(1) \/ Read(1) \/ Fail(1)

SpecFail == Init /\ [][NextFail]_vars

(* ------------- the wait estimate on queues of any composition ----------- *)
\* the longest queue the estimate is computed on (max_capacity is 10 unless
\* the specialization was created with another value)
MaxQueue == 6

\* the table of a specialization s whose entries joined one after the other
\* with the priorities st[1], st[2], ... and are all still waiting
QueueTable(s, st) ==
    [i \in 1..Len(st) |->
        NewRow(i, s, st[i],
               1 + Cardinality({j \in 1..Len(st) :
                        st[j] > st[i] \/ (st[j] = st[i] /\ j < i)}),
               EstimateOf(Cardinality({j \in 1..(i - 1) : st[j] >= st[i]}), st[i]),
               i)]

\* a service started on a database that holds such a queue
InitEstimate ==
    /\ \E n \in 0..MaxQueue : \E st \in [1..n -> Priorities] :
            \E s \in Specializations : entries = QueueTable(s, st)
    /\ now = Len(entries)
    /\ lastInsertId = -1
    /\ last = Result("none", "none", <<>>)
    /\ calls = 0
    /\ proc = [self \in Procs |-> Idle]
    /\ inactive = {}

\* the estimate add_patient_to_queue computes for an admission with the
\* given priority: position = len(queue) + 1, then
\* _calculate_estimated_wait_time(specialization_id, status, position)
JoinEstimate(s, status) ==
    \E g1 \in GetQueueOutcomes(entries, lastInsertId, s, TRUE) :
        \E g2 \in GetQueueOutcomes(g1.db, g1.lid, s, TRUE) :
            /\ entries' = g2.db
            /\ lastInsertId' = g2.lid
            /\ last' = Result("estimate", "ok",
                    <<s, status,
                      CalculateEstimatedWaitTime(Returned(Snapshot(g2.db, g2.q)),
                                                 status, Len(g1.q) + 1)>>)
            /\ UNCHANGED <<now, calls, proc, inactive>>

EstimateWait == \E s \in Specializations, status \in Priorities : JoinEstimate(s, status)

NextEstimate == EstimateWait

SpecEstimate == InitEstimate /\ [][NextEstimate]_vars

(* ------------- two clients at work on a queue that is waiting ---------- *)
\* the entries waiting when the two clients begin
MaxWaiting == 2

\* a service started on a database that holds a queue of one specialization
InitWaiting ==
    /\ \E s \in Specializations :
            /\ MaxWaiting <= max_capacity(s)
            /\ \E st \in [1..MaxWaiting -> Priorities] : entries = QueueTable(s, st)
    /\ now = Len(entries)
    /\ lastInsertId = -1
    /\ last = Result("none", "none", <<>>)
    /\ calls = 0
    /\ proc = [self \in Procs |-> Idle]
    /\ inactive = {}

\* a client begins a call on an existing specialization or entry
BeginValid(self) ==
    \/ \E p \in ValidPatients, s \in Specializations, status \in Priorities :
            StartJoin(self, p, s, status, FALSE)
    \/ \E id \in 1..Len(entries) : StartServe(self, id, FALSE)
    \/ \E s \in Specializations : StartNext(self, s, FALSE)
    \/ \E id \in 1..Len(entries), reason \in Reasons : StartRemove(self, id, reason, FALSE)
    \/ \E id \in 1..Len(entries), status \in Priorities :
            StartPriority(self, id, status, FALSE)
    \/ \E s \in Specializations, active_only \in BOOLEAN :
            StartGetQueue(self, s, active_only)

NextShift == \E self \in Procs : BeginValid(self) \/ Step(self)

SpecShift == InitWaiting /\ [][NextShift]_vars

(* ----------------------------- statistics ------------------------------ *)
\* date_range = None
NoRange == <<>>

\* date_range: None or (start_date, end_date)
DateRanges == {NoRange} \cup {<<a, b>> : a \in 1..MaxTime, b \in 1..MaxTime}

\* specialization_id: None (NULL) or a specialization
StatsInputs == {NULL} \cup Specializations

\* the WHERE clause of the statistics without its specialization condition
StatsRowsAllSpecializations(db, s, date_range) ==
    {i \in 1..Len(db) :
        /\ IsActiveRow(db[i])
        /\ (date_range # NoRange => /\ db[i].joined_at >= date_range[1]
                                    /\ db[i].joined_at <= date_range[2])}

\* where_clause: removed_at IS NULL AND served_at IS NULL
\* [AND specialization_id = s] [AND joined_at >= start AND joined_at <= end]
StatsRows(db, s, date_range) ==
    {i \in 1..Len(db) :
        /\ IsActiveRow(db[i])
        /\ (s # NULL => db[i].specialization_id = s)
        /\ (date_range # NoRange => /\ db[i].joined_at >= date_range[1]
                                    /\ db[i].joined_at <= date_range[2])}

\* status_dist[status] after the GROUP BY status query
StatusDist(db, rows, status) == Cardinality({i \in rows : db[i].status = status})

\* served_query: served_at IS NOT NULL [AND specialization_id = s]
ServedRows(db, s, date_range) ==
    {i \in 1..Len(db) :
        /\ db[i].served_at # NULL
        /\ (s # NULL => db[i].specialization_id = s)}

\* sum(wait_times), one clock tick taken as one minute
RECURSIVE SumWaitTimes(_, _)
SumWaitTimes(db, rows) ==
    IF rows = {} THEN 0
    ELSE LET i == CHOOSE x \in rows : TRUE
         IN (db[i].served_at - db[i].joined_at) + SumWaitTimes(db, rows \ {i})

\* avg_wait_time = int(sum(wait_times) / len(wait_times)) if wait_times else 0
AverageWaitTime(db, rows) ==
    IF rows = {} THEN 0 ELSE SumWaitTimes(db, rows) \div Cardinality(rows)

\* longest_wait: max(longest_wait, now - joined_at) over the active rows
LongestWait(db, rows, t) ==
    IF rows = {} THEN 0
    ELSE LET i == CHOOSE x \in rows : \A y \in rows : db[x].joined_at <= db[y].joined_at
         IN IF t - db[i].joined_at > 0 THEN t - db[i].joined_at ELSE 0

\* get_queue_statistics(specialization_id, date_range): total_active,
\* normal_count, urgent_count, super_urgent_count, average_wait_time,
\* longest_wait_time (recorded with the arguments of the call)
GetQueueStatistics(s, date_range) ==
    \E t \in ClockReads :
        LET rows == StatsRows(entries, s, date_range)
        IN /\ last' = Result("statistics", "ok",
                        <<Cardinality(rows),
                          StatusDist(entries, rows, 0),
                          StatusDist(entries, rows, 1),
                          StatusDist(entries, rows, 2),
                          AverageWaitTime(entries, ServedRows(entries, s, date_range)),
                          LongestWait(entries, rows, t),
                          s, date_range>>)
           /\ now' = t
           /\ UNCHANGED <<entries, lastInsertId>>

\* the calls of one reporting session
MaxStatsCalls == 3

StatsCall == calls < MaxStatsCalls /\ calls' = calls + 1 /\ UNCHANGED <<proc, inactive>>

StatsJoin == \E p \in Patients, s \in Specializations, status \in Priorities :
                StatsCall /\ AddPatientToQueue(p, s, status)
StatsServe == \E id \in 1..Len(entries) : StatsCall /\ ServePatient(id)
StatsServeNext == \E s \in Specializations : StatsCall /\ GetNextPatient(s)
StatsRemove == \E id \in 1..Len(entries), reason \in Reasons :
                StatsCall /\ RemovePatientFromQueue(id, reason)
StatsReprioritize == \E id \in 1..Len(entries), status \in Priorities :
                StatsCall /\ UpdatePatientPriority(id, status)
StatsReadQueue == \E s \in Specializations, active_only \in BOOLEAN :
                StatsCall /\ GetQueue(s, active_only)
Statistics == \E s \in StatsInputs, date_range \in DateRanges :
                StatsCall /\ GetQueueStatistics(s, date_range)

NextStats ==
    \/ StatsJoin
    \/ StatsServe
    \/ StatsServeNext
    \/ StatsRemove
    \/ StatsReprioritize
    \/ StatsReadQueue
    \/ Statistics

SpecStats == Init /\ [][NextStats]_vars

(* ------------------------------ claims --------------------------------- *)
RowIds == 1..Len(entries)

\* the active entries of a specialization
ActiveIn(s) == {i \in RowIds : /\ entries[i].specialization_id = s
                               /\ IsActiveRow(entries[i])}

\* served or removed
Terminal(e) == ~IsActiveRow(e)

\* C1: with max_capacity fixed, after any sequence of calls made one at a
\* time, no specialization has more active entries than its max_capacity.
C1_CapacityInvariant ==
    \A s \in Specializations : Cardinality(ActiveIn(s)) <= max_capacity(s)

\* a Join was refused for capacity while a specialization is full
C1_Witness ==
    /\ last.op = "join" /\ last.res = "capacity"
    /\ \E s \in Specializations : Cardinality(ActiveIn(s)) = max_capacity(s)

\* C2: after any sequence of calls made one at a time, no (patient,
\* specialization) pair has two active entries.
C2_UniquenessInvariant ==
    \A i, j \in RowIds :
        (/\ i # j
         /\ entries[i].patient_id = entries[j].patient_id
         /\ entries[i].specialization_id = entries[j].specialization_id
         /\ IsActiveRow(entries[i]))
        => ~IsActiveRow(entries[j])

\* a Join was refused as a duplicate; the pair also has an earlier, terminal
\* entry next to its active one
C2_Witness ==
    /\ last.op = "join" /\ last.res = "duplicate"
    /\ \E i, j \in RowIds :
        /\ entries[i].patient_id = entries[j].patient_id
        /\ entries[i].specialization_id = entries[j].specialization_id
        /\ Terminal(entries[i]) /\ IsActiveRow(entries[j])

\* positions of the active entries of s are 1..N, in ORDER BY order
PositionsOrdered(db, s) ==
    LET A == {i \in 1..Len(db) : db[i].specialization_id = s /\ IsActiveRow(db[i])}
    IN /\ {db[i].position : i \in A} = 1..Cardinality(A)
       /\ \A i, j \in A : SortsBefore(db[i], db[j]) => db[i].position < db[j].position

\* C3: after every completed call (GetQueue with active_only false among
\* them) the stored positions of the active entries of every specialization
\* are exactly 1..N and increase in (priority descending, joined_at
\* ascending) order.
C3_OrderingInvariant == \A s \in Specializations : PositionsOrdered(entries, s)

\* C4: once an entry is served or removed, no later call changes its
\* priority, served_at or removed_at.
C4_TerminalImmutable ==
    [][\A i \in RowIds :
        Terminal(entries[i]) =>
            /\ entries'[i].status = entries[i].status
            /\ entries'[i].served_at = entries[i].served_at
            /\ entries'[i].removed_at = entries[i].removed_at]_vars

\* C5: Serve, Remove and Reprioritize on an entry already served or removed
\* return a failure, change no field of the entry and leave every position
\* as it was.
C5_TerminalCallsFail ==
    [][\A id \in RowIds :
        (/\ Terminal(entries[id])
         /\ \/ ServePatient(id)
            \/ \E reason \in Reasons : RemovePatientFromQueue(id, reason)
            \/ \E status \in {0, 1, 2} : UpdatePatientPriority(id, status))
        => (last'.res = "false" /\ entries' = entries)]_vars

\* C6: no entry ever has both served_at and removed_at set: an entry ends in
\* one terminal state.
C6_OneTerminalState ==
    \A i \in RowIds :
        ~(entries[i].served_at # NULL /\ entries[i].removed_at # NULL)

\* client o has a call in progress that changes entries of specialization s
Mutating(o, s) ==
    /\ proc[o].pc # "idle"
    /\ proc[o].op \in {"join", "serve", "next", "remove", "priority"}
    /\ proc[o].s = s

\* C7: under concurrent Joins on one specialization, their statements
\* interleaved in any way, the number of its active entries never passes
\* max_capacity.
C7_CapacityUnderConcurrentJoins ==
    \A s \in Specializations :
        ~(Cardinality(ActiveIn(s)) > max_capacity(s))

\* C8: under two concurrent Joins for the same (patient, specialization)
\* pair the table never holds two active entries of the pair.
C8_UniqueUnderConcurrentJoins ==
    \A i \in RowIds : \A j \in RowIds \ {i} :
        ~(/\ IsActiveRow(entries[i]) /\ IsActiveRow(entries[j])
          /\ entries[i].patient_id = entries[j].patient_id
          /\ entries[i].specialization_id = entries[j].specialization_id)

\* C9: a read (get_all_queues, get_queue_entry) made while another client's
\* Join, Serve, Remove or Reprioritize on a specialization is in progress
\* reads active entries of it whose stored positions are 1..N in order.
C9_ReadsSeeNoMidMutation ==
    [][\A self \in Procs : \A s \in Specializations :
        (/\ GetAllQueues(self) \/ \E id \in EntryIds : GetQueueEntry(self, id)
         /\ \E o \in Procs \ {self} : Mutating(o, s))
        => PositionsOrdered(entries, s)]_vars

\* C10: a call whose statement fails leaves the table as it was before the
\* call; a call that returns has stored its change and the whole reorder.
C10_NoPartialApplication ==
    [][/\ Fail(1) => entries' = proc[1].before
       /\ (Return(1) /\ Mutating(1, proc[1].s)) => PositionsOrdered(entries', proc[1].s)]_vars

\* C11: a Join on a specialization whose active count equals max_capacity
\* (by a patient not already queued there) is refused with the capacity
\* error and leaves the table as it was: no row is added and no stored field
\* of any row, position included, changes.
C11_CapacityRejectNoSideEffect ==
    [][\A p \in ValidPatients, s \in Specializations, status \in Priorities :
        (/\ AddPatientToQueue(p, s, status)
         /\ ~AlreadyQueued(entries, p, s)
         /\ Cardinality(ActiveIn(s)) = max_capacity(s))
        => (last'.res = "capacity" /\ entries' = entries)]_vars

\* the ranks row i may hold among the active rows of its specialization in
\* (status descending, joined_at ascending) order: one rank, unless rows
\* equal it in both
Ranks(db, i) ==
    LET A == {j \in 1..Len(db) : /\ j # i
                                 /\ db[j].specialization_id = db[i].specialization_id
                                 /\ IsActiveRow(db[j])}
        ahead == {j \in A : SortsBefore(db[j], db[i])}
        level == {j \in A : ~SortsBefore(db[j], db[i]) /\ ~SortsBefore(db[i], db[j])}
    IN (Cardinality(ahead) + 1)..(Cardinality(ahead) + Cardinality(level) + 1)

\* C12: a Join for a (patient, specialization) pair that has an active entry
\* is refused as a duplicate, adds no row, changes no row, and reports the
\* rank the existing entry holds among the active entries of the
\* specialization.
C12_DuplicateRejected ==
    [][\A p \in ValidPatients, s \in Specializations, status \in Priorities :
        (AddPatientToQueue(p, s, status) /\ AlreadyQueued(entries, p, s))
        => /\ last'.res = "duplicate"
           /\ entries' = entries
           /\ \E e \in ActiveQueueEntries(entries, p, s) :
                    last'.val[1] \in Ranks(entries, e)]_vars

\* C13: a Join succeeds only on a specialization that exists and is active:
\* on one that is missing or has been deactivated it is refused and adds no
\* row.
C13_JoinNeedsActiveDepartment ==
    [][\A p \in ValidPatients, s \in SpecInputs, status \in StatusInputs :
        (/\ AddPatientToQueue(p, s, status)
         /\ s \notin Specializations \/ s \in inactive)
        => (last'.res # "ok" /\ Len(entries') = Len(entries))]_vars

\* C14: after a successful Join the row it added is active, has the
\* requested priority, and its stored position is 1 plus the number of other
\* active entries of the specialization whose priority is greater than or
\* equal to its own.
C14_PositionAfterJoin ==
    [][\A p \in ValidPatients, s \in Specializations, status \in Priorities :
        (AddPatientToQueue(p, s, status) /\ last'.res = "ok")
        => LET new == Len(entries')
               others == {j \in 1..Len(entries') :
                            /\ j # new
                            /\ entries'[j].specialization_id = s
                            /\ IsActiveRow(entries'[j])
                            /\ entries'[j].status >= status}
           IN /\ Len(entries') = Len(entries) + 1
              /\ IsActiveRow(entries'[new])
              /\ entries'[new].status = status
              /\ entries'[new].position = Cardinality(others) + 1]_vars

\* C15: a successful Join returns the entry_id of the row that this call
\* inserted, a row with the patient and specialization of the call, also
\* when Joins overlap on one service instance (so no two successful Joins
\* return the same id).
C15_JoinReturnsOwnId ==
    [][\A self \in Procs :
        (/\ proc[self].op = "join" /\ proc[self].pc = "return"
         /\ proc'[self].pc = "idle" /\ last'.res = "ok")
        => /\ last'.val = <<proc[self].id>>
           /\ entries[proc[self].id].patient_id = proc[self].p
           /\ entries[proc[self].id].specialization_id = proc[self].s]_vars

\* C16: get_queue(specialization, active_only=True) returns exactly the
\* entries of the specialization that are neither served nor removed, each
\* once, by priority descending and within a priority by joined_at
\* ascending; when it has returned, the stored position of every returned
\* entry is its 1-based index in the list.
C16_GetQueueActive ==
    [][\A s \in SpecInputs :
        (last'.op = "queue" /\ GetQueue(s, TRUE))
        => LET q == last'.val IN
           /\ {q[k] : k \in 1..Len(q)} =
                    {i \in RowIds : /\ entries[i].specialization_id = s
                                    /\ entries[i].served_at = NULL
                                    /\ entries[i].removed_at = NULL}
           /\ \A j, k \in 1..Len(q) : j # k => q[j] # q[k]
           /\ \A j, k \in 1..Len(q) :
                    j < k => \/ entries[q[j]].status > entries[q[k]].status
                             \/ /\ entries[q[j]].status = entries[q[k]].status
                                /\ entries[q[j]].joined_at <= entries[q[k]].joined_at
           /\ \A k \in 1..Len(q) : entries'[q[k]].position = k]_vars

\* get_queue has returned two entries, the later joiner first because its
\* priority is higher
C16_Witness ==
    /\ last.op = "queue" /\ Len(last.val) >= 2
    /\ entries[last.val[1]].status > entries[last.val[2]].status
    /\ entries[last.val[1]].joined_at > entries[last.val[2]].joined_at
    /\ entries[last.val[1]].position = 1

\* C17: get_queue(specialization, active_only=False) returns all entries of
\* the specialization, every active entry before every served or removed
\* entry, the active entries by priority descending and joined_at ascending.
C17_GetQueueAll ==
    [][\A s \in SpecInputs :
        (last'.op = "queue_all" /\ GetQueue(s, FALSE))
        => LET q == last'.val IN
           /\ {q[k] : k \in 1..Len(q)} =
                    {i \in RowIds : entries[i].specialization_id = s}
           /\ \A j, k \in 1..Len(q) :
                    (IsActiveRow(entries[q[j]]) /\ ~IsActiveRow(entries[q[k]])) => j < k
           /\ \A j, k \in 1..Len(q) :
                    (j < k /\ IsActiveRow(entries[q[j]]) /\ IsActiveRow(entries[q[k]]))
                    => ~SortsBefore(entries[q[k]], entries[q[j]])]_vars

OtherActive(id) == ActiveIn(entries[id].specialization_id) \ {id}

\* the active entries other than id stay active, keep their priority and
\* their order relative to each other, and are numbered 1..N-1
OthersKeepOrder(id) ==
    /\ \A j \in OtherActive(id) :
            /\ IsActiveRow(entries'[j])
            /\ entries'[j].status = entries[j].status
    /\ \A j, k \in OtherActive(id) :
            entries[j].position < entries[k].position
            => entries'[j].position < entries'[k].position
    /\ {entries'[j].position : j \in OtherActive(id)} = 1..Cardinality(OtherActive(id))

\* C19: serve_patient on an active entry sets its status to Served and its
\* served_at, leaves its removed_at null, takes it out of the active set,
\* and leaves every other active entry of the specialization active with
\* its priority and its order relative to the others, renumbered 1..N-1.
C19_ServeFrame ==
    [][\A id \in RowIds :
        (last'.op = "serve" /\ IsActiveRow(entries[id]) /\ ServePatient(id))
        => /\ entries'[id].status = SERVED
           /\ entries'[id].served_at = now'
           /\ entries'[id].removed_at = NULL
           /\ ~IsActiveRow(entries'[id])
           /\ OthersKeepOrder(id)]_vars

\* C20: remove_patient_from_queue on an active entry sets removed_at and
\* stores the given reason (possibly none), leaves the entry's priority and
\* served_at as they were, takes it out of the active set, and leaves the
\* other active entries of the specialization in the same relative order,
\* renumbered 1..N-1.
C20_RemoveFrame ==
    [][\A id \in RowIds : \A reason \in Reasons :
        (/\ last'.op = "remove" /\ IsActiveRow(entries[id])
         /\ RemovePatientFromQueue(id, reason))
        => /\ entries'[id].removed_at = now'
           /\ entries'[id].removal_reason = reason
           /\ entries'[id].status = entries[id].status
           /\ entries'[id].served_at = entries[id].served_at
           /\ ~IsActiveRow(entries'[id])
           /\ OthersKeepOrder(id)]_vars

\* the active entries other than id stay active, keep their priority and
\* their order relative to each other
OthersSameOrder(id) ==
    /\ \A j \in OtherActive(id) :
            /\ IsActiveRow(entries'[j])
            /\ entries'[j].status = entries[j].status
    /\ \A j, k \in OtherActive(id) :
            entries[j].position < entries[k].position
            => entries'[j].position < entries'[k].position

\* C21: update_patient_priority on an active entry with a new priority of
\* Normal, Urgent or SuperUrgent changes the priority of that entry only;
\* afterwards its position is 1 plus the number of active entries of its
\* specialization with a higher priority, or the same priority and an
\* earlier joined_at, and the other active entries keep their order.  A new
\* priority outside the three (Served included) is rejected and nothing
\* stored changes.
C21_ReprioritizeEffect ==
    [][\A id \in RowIds : \A p \in StatusInputs :
        (/\ last'.op = "priority" /\ IsActiveRow(entries[id])
         /\ UpdatePatientPriority(id, p))
        => IF ValidStatus(p)
           THEN /\ entries'[id].status = p
                /\ entries'[id].joined_at = entries[id].joined_at
                /\ IsActiveRow(entries'[id])
                /\ \A j \in RowIds \ {id} : entries'[j].status = entries[j].status
                /\ entries'[id].position =
                      1 + Cardinality({j \in OtherActive(id) :
                                SortsBefore(entries'[j], entries'[id])})
                /\ OthersSameOrder(id)
           ELSE /\ last'.res = "invalid_status"
                /\ entries' = entries]_vars

\* C22: the estimated_wait_time stored when an entry joined is never changed
\* by a later add_patient_to_queue, serve_patient, get_next_patient,
\* remove_patient_from_queue, update_patient_priority or get_queue.
C22_EstimateIsSnapshot ==
    [][\A i \in RowIds :
        entries'[i].estimated_wait_time = entries[i].estimated_wait_time]_vars

\* an entry that joined behind another one still carries its estimate of 15
\* minutes after the entry ahead was served and it moved to position 1
C22_Witness ==
    /\ last.op \in {"serve", "next"}
    /\ \E i \in RowIds :
        /\ IsActiveRow(entries[i])
        /\ entries[i].position = 1
        /\ entries[i].estimated_wait_time = AVERAGE_SERVICE_TIME

\* ten times the priority multiplier: 1.0 for Normal, 0.7 for Urgent, 0.5
\* for SuperUrgent
MultiplierTenths(status) == IF status = 0 THEN 10 ELSE IF status = 1 THEN 7 ELSE 5

\* C23: after a successful add_patient_to_queue with priority p the stored
\* estimated_wait_time equals k * 15 * m(p), k the number of other active
\* entries of the specialization with priority >= p and m(p) = 1.0, 0.7,
\* 0.5 for Normal, Urgent, SuperUrgent; it is never negative.
C23_EstimateFormula ==
    (last.op = "join" /\ last.res = "ok")
    => LET id == last.val[1]
           e == entries[id]
           k == Cardinality({j \in ActiveIn(e.specialization_id) \ {id} :
                                entries[j].status >= e.status})
       IN /\ 10 * e.estimated_wait_time
                = k * AVERAGE_SERVICE_TIME * MultiplierTenths(e.status)
          /\ e.estimated_wait_time >= 0

\* the estimates _calculate_estimated_wait_time gives for an admission with
\* priority status to specialization s in the current state
EstimatesFor(s, status) ==
    {CalculateEstimatedWaitTime(Returned(Snapshot(entries, q)), status, Len(q) + 1) :
        q \in SelectQueue(entries, s, TRUE)}

\* C24: for a fixed set of active entries the estimate computed for an
\* admission with a higher priority is lower than or equal to the estimate
\* computed for an admission with a lower priority
\* (SuperUrgent <= Urgent <= Normal).
C24_EstimateMonotone ==
    (last.op = "estimate")
    => LET s == last.val[1]
           status == last.val[2]
           est == last.val[3]
       IN \A other \in Priorities : \A e \in EstimatesFor(s, other) :
            /\ other < status => est <= e
            /\ other > status => est >= e

\* a SuperUrgent admission behind SuperUrgent and Normal entries got a
\* positive estimate, smaller than the one a Normal admission would get
C24_Witness ==
    /\ last.op = "estimate"
    /\ last.val[2] = 2
    /\ last.val[3] > 0
    /\ \E i \in ActiveIn(last.val[1]) : entries[i].status = 0
    /\ \A e \in EstimatesFor(last.val[1], 0) : last.val[3] < e

\* C25: get_queue_statistics for a specialization, without a date range,
\* changes nothing stored and reports a total_active equal to the number of
\* active entries of the specialization and to
\* normal_count + urgent_count + super_urgent_count.
C25_StatisticsPure ==
    [][\A s \in Specializations :
        (last'.op = "statistics" /\ GetQueueStatistics(s, NoRange))
        => /\ entries' = entries
           /\ lastInsertId' = lastInsertId
           /\ last'.val[1] = Cardinality(ActiveIn(s))
           /\ last'.val[1] = last'.val[2] + last'.val[3] + last'.val[4]]_vars

\* statistics of a specialization with one active entry were taken while
\* another specialization had an active entry
C25_Witness ==
    /\ last.op = "statistics"
    /\ last.val[7] \in Specializations
    /\ last.val[8] = NoRange
    /\ last.val[1] = 1
    /\ \E i \in RowIds :
        /\ IsActiveRow(entries[i])
        /\ entries[i].specialization_id # last.val[7]

\* the entries whose joined_at lies inside the date range
InRange(date_range) ==
    {i \in RowIds : /\ entries[i].joined_at >= date_range[1]
                    /\ entries[i].joined_at <= date_range[2]}

\* C26: with a date range, every figure get_queue_statistics reports, the
\* average wait of the served entries included, is computed only from the
\* entries whose joined_at lies inside the range.
C26_StatisticsWindow ==
    [][\A s \in StatsInputs : \A date_range \in DateRanges \ {NoRange} :
        (last'.op = "statistics" /\ GetQueueStatistics(s, date_range))
        => LET active == {i \in InRange(date_range) :
                            /\ IsActiveRow(entries[i])
                            /\ (s # NULL => entries[i].specialization_id = s)}
               served == {i \in InRange(date_range) :
                            /\ entries[i].served_at # NULL
                            /\ (s # NULL => entries[i].specialization_id = s)}
           IN /\ last'.val[1] = Cardinality(active)
              /\ \A status \in Priorities :
                    last'.val[2 + status] = StatusDist(entries, active, status)
              /\ last'.val[5] = AverageWaitTime(entries, served)
              /\ last'.val[6] = LongestWait(entries, active, now')]_vars

\* client self is in a serve_patient or get_next_patient call that has
\* settled on the entry it serves
Serving(self) == proc[self].op \in {"serve", "next"} /\ proc[self].id # 0

\* client self is in such a call and has run its UPDATE
HasServed(self) == Serving(self) /\ proc[self].pc # "serve_update"

\* C27: when two get_next_patient calls on one specialization, or two
\* serve_patient calls on one entry, overlap, no entry is served twice: no
\* call writes the served_at of an entry that a call still in progress has
\* already served, and two calls in progress have never both served (and
\* are about to return) the same entry.
C27_NoDoubleServe ==
    /\ [][\A a, b \in Procs :
            (/\ a # b /\ HasServed(b) /\ proc[a].pc = "serve_update"
             /\ proc[a].id = proc[b].id /\ ServeUpdate(a))
            => entries[proc[a].id].served_at = NULL]_vars
    /\ [](\A a, b \in Procs :
            (a # b /\ HasServed(a) /\ HasServed(b)) => proc[a].id # proc[b].id)

\* C28: whatever the interleaving of add_patient_to_queue, serve_patient,
\* get_next_patient, remove_patient_from_queue, update_patient_priority and
\* get_queue calls of two clients, once every call has returned the stored
\* positions of the active entries of each specialization are 1..N in
\* (priority descending, joined_at ascending) order.
C28_PositionsAfterInterleaving ==
    (\A self \in Procs : proc[self].pc = "idle")
    => \A s \in Specializations : PositionsOrdered(entries, s)

\* a step leaves every row of the specializations other than s as it is,
\* and a row it inserts belongs to s
OthersUntouched(s) ==
    /\ \A i \in RowIds : entries[i].specialization_id # s => entries'[i] = entries[i]
    /\ \A i \in 1..Len(entries') : i \notin RowIds => entries'[i].specialization_id = s

\* C29: a call made for one specialization (add_patient_to_queue into it,
\* serve_patient / remove_patient_from_queue / update_patient_priority of
\* one of its entries, get_next_patient, get_queue) changes no field of an
\* entry of another specialization, and whether it succeeds is decided by
\* the entries of its own specialization alone.
C29_DepartmentIsolation ==
    [][/\ \A p \in Patients : \A s \in SpecInputs : \A status \in StatusInputs :
            (last'.op = "join" /\ AddPatientToQueue(p, s, status))
            => /\ OthersUntouched(s)
               /\ last'.res = "ok" <=>
                    /\ ValidStatus(status)
                    /\ s \in Specializations
                    /\ ~\E i \in ActiveIn(s) : entries[i].patient_id = p
                    /\ Cardinality(ActiveIn(s)) < max_capacity(s)
       /\ \A id \in RowIds :
            LET s == entries[id].specialization_id IN
            /\ (last'.op = "serve" /\ ServePatient(id))
                    => OthersUntouched(s) /\ last'.res = "true"
            /\ \A reason \in Reasons :
                    (last'.op = "remove" /\ RemovePatientFromQueue(id, reason))
                    => OthersUntouched(s) /\ last'.res = "true"
            /\ \A status \in StatusInputs :
                    (last'.op = "priority" /\ UpdatePatientPriority(id, status))
                    => OthersUntouched(s) /\ (last'.res = "true" <=> ValidStatus(status))
       /\ \A s \in SpecInputs :
            /\ (last'.op = "next" /\ GetNextPatient(s))
                    => OthersUntouched(s) /\ (last'.res = "entry" <=> ActiveIn(s) # {})
            /\ \A active_only \in BOOLEAN :
                    (last'.op \in {"queue", "queue_all"} /\ GetQueue(s, active_only))
                    => OthersUntouched(s) /\ last'.res = "list"]_vars

\* an entry was served and the entry behind it moved up to position 1, while
\* another specialization has an active entry at its own position 1
C29_Witness ==
    /\ last.op = "serve" /\ last.res = "true"
    /\ \E i, j \in RowIds :
        /\ IsActiveRow(entries[i]) /\ IsActiveRow(entries[j])
        /\ entries[i].specialization_id # entries[j].specialization_id
        /\ entries[i].position = 1 /\ entries[j].position = 1
        /\ entries[i].estimated_wait_time > 0

\* C30: in every reachable state QueueEntry.is_active (status not Served and
\* removed_at null) holds of an entry exactly when the queries treat it as
\* active (served_at and removed_at both null), and its status is Served
\* exactly when its served_at is set.
C30_ActiveViewsAgree ==
    \A i \in RowIds :
        /\ is_active(entries[i]) <=> IsActiveRow(entries[i])
        /\ entries[i].status = SERVED <=> entries[i].served_at # NULL
=============================================================================
